---------------------------- MODULE Spec2Model ----------------------------
(***************************************************************************)
(* Model of the two Streamlit transcription pages, src/demo.py (direct     *)
(* HTTPS call, JSON dictionaries) and src/demo2.py (vendor client library, *)
(* response objects, rendering grouped by paragraph and sentence).         *)
(*                                                                         *)
(* Three specifications:                                                   *)
(*   Spec       the request flow of the "Transcribe Audio" block of both   *)
(*              pages: widgets, temporary file, provider call, rendering,  *)
(*              clean-up;                                                  *)
(*   SpecColor  the confidence-to-colour computation of one word over a    *)
(*              grid of confidences, in IEEE-754 double arithmetic;        *)
(*   SpecJoin   the plain-text export (" ".join) and its split.            *)
(***************************************************************************)
EXTENDS Integers, Sequences, FiniteSets

(***************************************************************************)
(* Bounds of the model.                                                    *)
(***************************************************************************)
\* confidences of SpecColor are the doubles nearest k / ConfScale, k in 0..ConfScale
ConfScale == 1000
\* longest word list of a provider response in Spec
MaxWords == 2
\* most sentences (over all paragraphs) of a provider response in Spec
MaxSentences == 2
\* longest word list and longest word text of SpecJoin
MaxJoinWords == 2
MaxTextLen == 2

(***************************************************************************)
(* Python floats are IEEE-754 doubles.  A positive double is modelled      *)
(* exactly as [zero |-> FALSE, m |-> bits, e |-> exponent]: m is the       *)
(* MantBits-bit significand, most significant bit first (m[1] = 1), and    *)
(* the value is m (read as a binary integer) times 2^e.  Zero is           *)
(* [zero |-> TRUE, ...].  All values handled here lie in [0, 255], far     *)
(* from overflow and from the subnormal range.                             *)
(***************************************************************************)
MantBits == 53

Pow2(n) == IF n <= 0 THEN 1 ELSE LET RECURSIVE P(_)
                                     P(i) == IF i = 0 THEN 1 ELSE 2 * P(i - 1)
                                 IN  P(n)

\* a bit string given as a function on 1..n, as a sequence
Bits(f) == f \o <<>>

ZeroBits(n) == Bits([i \in 1..n |-> 0])

FloatZero == [zero |-> TRUE, m |-> ZeroBits(MantBits), e |-> 0]

\* bits + 1 on a bit string that is not all ones (most significant bit first)
BitsInc(bits) ==
    LET n == Len(bits)
        z == CHOOSE i \in 1..n : bits[i] = 0 /\ \A j \in (i + 1)..n : bits[j] = 1
    IN  Bits([i \in 1..n |-> IF i < z THEN bits[i] ELSE IF i = z THEN 1 ELSE 0])

\* a - b for two n-bit strings with a >= b.  A borrow enters position i when
\* the bits to its right read less in a than in b, that is, when a is the
\* smaller at the first position to the right where the two differ.
BitsSub(a, b) ==
    LET n == Len(a)
        Borrow(i) == \E j \in (i + 1)..n :
                        /\ a[j] < b[j]
                        /\ \A k \in (i + 1)..(j - 1) : a[k] = b[k]
    IN  Bits([i \in 1..n |-> (2 + a[i] - b[i] - (IF Borrow(i) THEN 1 ELSE 0)) % 2])

\* the integer a bit string stands for (used on short strings only)
BitsToInt(bits) ==
    LET RECURSIVE V(_)
        V(i) == IF i = 0 THEN 0 ELSE 2 * V(i - 1) + bits[i]
    IN  V(Len(bits))

\* Round-to-nearest, ties-to-even, of the positive integer `bits` times 2^e
\* to a double.  `sticky` tells that the exact value is above bits * 2^e by
\* less than one unit of the last bit of `bits`.
RoundToDouble(bits, e, sticky) ==
    LET n     == Len(bits)
        lead  == CHOOSE i \in 1..n : bits[i] = 1 /\ \A j \in 1..(i - 1) : bits[j] = 0
        sig   == n - lead + 1
        norm  == Bits([i \in 1..sig |-> bits[lead + i - 1]])
    IN  IF sig <= MantBits
        THEN [zero |-> FALSE,
              m    |-> Bits([i \in 1..MantBits |-> IF i <= sig THEN norm[i] ELSE 0]),
              e    |-> e - (MantBits - sig)]
        ELSE LET head  == Bits([i \in 1..MantBits |-> norm[i]])
                 half  == norm[MantBits + 1] = 1
                 rest  == sticky \/ \E i \in (MantBits + 2)..sig : norm[i] = 1
                 up    == half /\ (rest \/ head[MantBits] = 1)
                 e2    == e + (sig - MantBits)
             IN  IF ~up THEN [zero |-> FALSE, m |-> head, e |-> e2]
                 ELSE IF \A i \in 1..MantBits : head[i] = 1
                      THEN [zero |-> FALSE,
                            m    |-> Bits([i \in 1..MantBits |-> IF i = 1 THEN 1 ELSE 0]),
                            e    |-> e2 + 1]
                      ELSE [zero |-> FALSE, m |-> BitsInc(head), e |-> e2]

RECURSIVE Pow2Mod(_, _)
\* 2^i modulo m, by repeated squaring
Pow2Mod(i, m) ==
    IF i = 0 THEN 1 % m
    ELSE IF i % 2 = 1 THEN (2 * Pow2Mod(i - 1, m)) % m
    ELSE (Pow2Mod(i \div 2, m) * Pow2Mod(i \div 2, m)) % m

\* the number of halvings or doublings that bring n / d into [1, 2):
\* the s with d <= n * 2^s < 2 * d
RatioShift(n, d) ==
    LET RECURSIVE Up(_, _)
        \* least s with x * 2^s >= d
        Up(x, s) == IF x >= d THEN s ELSE Up(2 * x, s + 1)
        RECURSIVE Down(_, _)
        \* for n >= d: greatest t with n >= d * 2^t
        Down(y, t) == IF 2 * y > n THEN t ELSE Down(2 * y, t + 1)
    IN  IF n >= d THEN 0 - Down(d, 0) ELSE Up(n, 0)

\* Long division of num by den for den <= num < 2 * den: the first
\* MantBits + 1 bits of the binary expansion of num / den, and whether a
\* remainder is left.  The remainder after i steps is num * 2^i modulo den.
DivideBits(num, den, e) ==
    [bits   |-> Bits([j \in 1..(MantBits + 1) |->
                        IF j = 1 THEN 1
                        ELSE (2 * (((num % den) * Pow2Mod(j - 2, den)) % den)) \div den]),
     e      |-> e,
     sticky |-> ((num % den) * Pow2Mod(MantBits, den)) % den > 0]

\* n / d (0 < n, 0 < d) as MantBits + 1 leading bits, the exponent of the last
\* of them, and whether more follows
ShiftedRatio(n, d, s) ==
    IF s >= 0 THEN DivideBits(n * Pow2(s), d, 0 - s - MantBits)
    ELSE DivideBits(n, d * Pow2(0 - s), 0 - s - MantBits)

RatioBits(n, d) == ShiftedRatio(n, d, RatioShift(n, d))

\* the double nearest to the exact value RatioBits describes
RoundRatio(q) == RoundToDouble(q.bits, q.e, q.sticky)

\* The double nearest to the rational n / d (0 <= n, 0 < d): what json.loads
\* (demo.py) or the client library (demo2.py) hands over for a confidence whose
\* decimal value is n / d.
FloatOfRatio(n, d) == IF n = 0 THEN FloatZero ELSE RoundRatio(RatioBits(n, d))

\* the sign of (the double nearest to the value q describes) - (that value)
RatioErrSign(q) ==
    IF q.bits[MantBits + 1] = 1 /\ (q.sticky \/ q.bits[MantBits] = 1) THEN 1
    ELSE IF q.bits[MantBits + 1] = 1 \/ q.sticky THEN -1
    ELSE 0

\* The sign of FloatOfRatio(n, d) - n / d: 1 when the double lies above the
\* rational, -1 when below, 0 when the rational is a double.
FloatErrSign(n, d) == IF n = 0 THEN 0 ELSE RatioErrSign(RatioBits(n, d))

\* 1 - x in double arithmetic, for a double x in [0, 1]
FloatOneMinus(x) ==
    IF x.zero THEN [zero |-> FALSE,
                    m    |-> Bits([i \in 1..MantBits |-> IF i = 1 THEN 1 ELSE 0]),
                    e    |-> 1 - MantBits]
    ELSE LET t    == 0 - x.e
             \* 1 = 2^t * 2^(x.e): the bit string 1 0...0 of t + 1 bits
             one  == Bits([i \in 1..(t + 1) |-> IF i = 1 THEN 1 ELSE 0])
             xm   == Bits([i \in 1..(t + 1) |->
                              IF i <= t + 1 - MantBits THEN 0
                              ELSE x.m[i - (t + 1 - MantBits)]])
             diff == BitsSub(one, xm)
         IN  IF \A i \in 1..(t + 1) : diff[i] = 0 THEN FloatZero
             ELSE RoundToDouble(diff, x.e, FALSE)

\* 255 * x in double arithmetic (the int 255 converts to 255.0 exactly):
\* 255 * m = m * 2^8 - m, rounded once.
FloatTimes255(x) ==
    IF x.zero THEN FloatZero
    ELSE LET n    == MantBits + 8
             hi   == Bits([i \in 1..n |-> IF i <= MantBits THEN x.m[i] ELSE 0])
             lo   == Bits([i \in 1..n |-> IF i <= 8 THEN 0 ELSE x.m[i - 8]])
         IN  RoundToDouble(BitsSub(hi, lo), x.e, FALSE)

\* round(x) in place of int(x): to the nearest integer, halves upward
RoundOfFloat(x) ==
    IF x.zero THEN 0
    ELSE IF MantBits + x.e < 0 THEN 0
    ELSE IF MantBits + x.e >= MantBits THEN BitsToInt(x.m) * Pow2(x.e)
    ELSE BitsToInt(SubSeq(x.m, 1, MantBits + x.e)) + x.m[MantBits + x.e + 1]

\* int(x) of a double 0 <= x < 2^31: truncation toward zero
IntOfFloat(x) ==
    IF x.zero THEN 0
    ELSE LET k == MantBits + x.e   \* number of bits before the binary point
         IN  IF k <= 0 THEN 0
             ELSE IF k >= MantBits
                  THEN BitsToInt(x.m) * Pow2(k - MantBits)
                  ELSE BitsToInt(SubSeq(x.m, 1, k))

\* x <= 0.5 in place of x < 0.5
FloatAtMostHalf(x) ==
    \/ x.zero
    \/ MantBits + x.e <= -1
    \/ MantBits + x.e = 0 /\ \A i \in 2..MantBits : x.m[i] = 0

\* x < 0.5 for a double x >= 0
FloatLessThanHalf(x) == x.zero \/ MantBits + x.e <= -1


(***************************************************************************)
(* Text.  A Python str is modelled as a sequence of one-character strings. *)
(***************************************************************************)
Space == " "

Chars == {"a", "b", Space}

\* all sequences over S of length at most n
SeqUpTo(S, n) == UNION {[1..k -> S] : k \in 0..n}

\* all texts of at most n characters
Texts(n) == SeqUpTo(Chars, n)

\* a join that puts the first text last
JoinRotated(sep, texts) ==
    LET RECURSIVE J(_)
        J(ts) == IF Len(ts) = 0 THEN <<>>
                 ELSE IF Len(ts) = 1 THEN ts[1]
                 ELSE ts[1] \o sep \o J(Tail(ts))
    IN  IF Len(texts) < 2 THEN J(texts) ELSE J(Append(Tail(texts), texts[1]))

RECURSIVE JoinWith(_, _)
\* sep.join(texts): the texts in order, sep between neighbours
JoinWith(sep, texts) ==
    IF Len(texts) = 0 THEN <<>>
    ELSE IF Len(texts) = 1 THEN texts[1]
    ELSE texts[1] \o sep \o JoinWith(sep, Tail(texts))

RECURSIVE SplitOn(_, _)
\* s.split(sep) for a one-character sep: cut at every sep, empty pieces kept,
\* so the empty text yields one empty piece
SplitOn(sep, s) ==
    IF \A i \in 1..Len(s) : s[i] # sep THEN <<s>>
    ELSE LET k == CHOOSE i \in 1..Len(s) : s[i] = sep /\ \A j \in 1..(i - 1) : s[j] # sep
         IN  <<SubSeq(s, 1, k - 1)>> \o SplitOn(sep, SubSeq(s, k + 1, Len(s)))

DigitChar(i) == <<"0", "1", "2", "3", "4", "5", "6", "7", "8", "9">>[i + 1]

\* a rounding tie at q + 1/2 hundredths: the double's own error decides, and
\* an exact tie goes to the even neighbour
TieToHundredths(q, sign) ==
    IF sign > 0 THEN q + 1
    ELSE IF sign < 0 THEN q
    ELSE IF q % 2 = 0 THEN q ELSE q + 1

\* f"{confidence:.2f}" rounds the exact value of the double to hundredths,
\* ties to even.  Hundredths2 is that number of hundredths for the double
\* nearest n / d (0 <= n <= d): away from a tie the rational decides; on a
\* tie of the rational the double's own rounding error decides.
Hundredths2(n, d) ==
    IF 2 * ((100 * n) % d) < d THEN (100 * n) \div d
    ELSE IF 2 * ((100 * n) % d) > d THEN (100 * n) \div d + 1
    ELSE TieToHundredths((100 * n) \div d, FloatErrSign(n, d))

\* h hundredths (0 <= h <= 999) written with two decimals
TwoDecimals(h) ==
    <<DigitChar(h \div 100), ".", DigitChar((h \div 10) % 10), DigitChar(h % 10)>>

\* the text of f"{confidence:.2f}" for a confidence in [0, 1]
Format2f(n, d) == TwoDecimals(Hundredths2(n, d))

\* f"{text} ({confidence:.2f})"
WithConfidence(text, n, d) == text \o <<Space, "(">> \o Format2f(n, d) \o <<")">>

(***************************************************************************)
(* The colour of one word (demo.py 75-87, demo2.py 85-98).  A confidence   *)
(* is carried as the rational [n, d] of its decimal value and enters the   *)
(* arithmetic as the double nearest to it.                                 *)
(***************************************************************************)
\* r = int(255 * (1 - confidence))
Red(n, d) == IntOfFloat(FloatTimes255(FloatOneMinus(FloatOfRatio(n, d))))

\* g = int(255 * confidence)
Green(n, d) == IntOfFloat(FloatTimes255(FloatOfRatio(n, d)))

\* b = 0
Blue(n, d) == 0

\* "white" if confidence < 0.5 else "black"
TextColor(n, d) == IF FloatLessThanHalf(FloatOfRatio(n, d)) THEN "white" ELSE "black"

\* the confidences of the word objects of Spec
ConfHigh == [n |-> 92, d |-> 100]
ConfLow  == [n |-> 31, d |-> 100]

\* background and foreground of a word of confidence conf
Style(conf) ==
    [rgb |-> <<Red(conf.n, conf.d), Green(conf.n, conf.d), Blue(conf.n, conf.d)>>,
     fg  |-> TextColor(conf.n, conf.d)]

StyleHigh == Style(ConfHigh)
StyleLow  == Style(ConfLow)

\* Style, computed once for the confidences of Spec
StyleOf(conf) ==
    IF conf = ConfHigh THEN StyleHigh
    ELSE IF conf = ConfLow THEN StyleLow
    ELSE Style(conf)

\* a <span> with a background and a foreground
StyledSpan(text, style) ==
    [text |-> text, colored |-> TRUE, rgb |-> style.rgb, fg |-> style.fg]

\* the <span> of one word: its display text, background and foreground
ColoredSpan(text, conf) == StyledSpan(text, StyleOf(conf))

\* the bare <span> demo2.py emits once the word objects have run out
PlainSpan(text) == [text |-> text, colored |-> FALSE, rgb |-> <<>>, fg |-> "inherit"]

(***************************************************************************)
(* What a page shows: a sequence of Streamlit elements.                    *)
(***************************************************************************)
Element(kind, msg, frags, data) == [kind |-> kind, msg |-> msg, frags |-> frags, data |-> data]

Header          == Element("markdown", "### Transcription Result:", <<>>, <<>>)
Html(frags)     == Element("html", "", frags, <<>>)
Download(f, t)  == Element("download_button", f, <<>>, t)
ParseError      == Element("error", "Error parsing transcription result", <<>>, <<>>)
RequestError    == Element("error", "An error occurred during transcription", <<>>, <<>>)
RawJson         == Element("json", "response", <<>>, <<>>)
RawExpander     == Element("expander", "View Raw API Response", <<>>, <<>>)
KeyPrompt       == Element("warning", "Please enter your Deepgram API key to proceed.", <<>>, <<>>)
FilePrompt      == Element("info", "Please upload an audio file to transcribe.", <<>>, <<>>)
StartPrompt     == Element("info", "Enter your API key and upload an audio file to get started.", <<>>, <<>>)
Button          == Element("button", "Transcribe Audio", <<>>, <<>>)

(***************************************************************************)
(* Provider responses.  A response is a record; a field the provider left  *)
(* out is absent from its domain.  The full shape is                       *)
(*   [results |-> [channels |-> << [alternatives |->                       *)
(*       << [words |-> <<word, ...>>,                                      *)
(*           paragraphs |-> [paragraphs |-> << [sentences |->              *)
(*                                    << [text |-> ...], ... >>], ... >>]  *)
(*          ] >>] >>]]                                                     *)
(* with word = [word |-> text, confidence |-> [n |-> , d |-> ]].           *)
(***************************************************************************)
Has(rec, key) == key \in DOMAIN rec

\* The walk results['results']['channels'][0]['alternatives'][0] (demo.py 67)
\* or response.results.channels[0].alternatives[0] (demo2.py 69, 75): the
\* alternative, or the exception the walk raises.  `missing` is the exception
\* of a missing field: KeyError on a dict, AttributeError on an object.
Alternative(response, missing) ==
    IF ~Has(response, "results") THEN [exc |-> missing, alt |-> <<>>]
    ELSE IF ~Has(response.results, "channels") THEN [exc |-> missing, alt |-> <<>>]
    ELSE IF Len(response.results.channels) = 0 THEN [exc |-> "IndexError", alt |-> <<>>]
    ELSE IF ~Has(response.results.channels[1], "alternatives")
         THEN [exc |-> missing, alt |-> <<>>]
    ELSE IF Len(response.results.channels[1].alternatives) = 0
         THEN [exc |-> "IndexError", alt |-> <<>>]
    ELSE [exc |-> "none", alt |-> response.results.channels[1].alternatives[1]]

\* [word["word"] for word in words]
WordTextsOf(words) == [i \in 1..Len(words) |-> words[i].word]

\* " ".join([word["word"] for word in words])
PlainText(words) == JoinWith(<<Space>>, WordTextsOf(words))

\* "\n".join([f"{word['word']} ({word['confidence']:.2f})" for word in words])
DetailedText(words) ==
    JoinWith(<<"\n">>,
             [i \in 1..Len(words) |->
                 WithConfidence(words[i].word, words[i].confidence.n, words[i].confidence.d)])

\* the two download buttons (demo.py 94-109, demo2.py 109-124)
Downloads(words) ==
    << Download("transcript.txt", PlainText(words)),
       Download("detailed_transcript.txt", DetailedText(words)) >>

\* display_text of a word (demo.py 82-85, demo2.py 93-96)
DisplayText(text, conf, show_conf) ==
    IF show_conf THEN WithConfidence(text, conf.n, conf.d) ELSE text

(***************************************************************************)
(* demo.py display_transcription.  The body of the try returns what it     *)
(* showed and the exception that ended it ("none" when it ran through).    *)
(***************************************************************************)
\* demo.py 69-109, once `words` is bound
ShowWordsDemo(words, show_conf) ==
    IF \E i \in 1..Len(words) : ~Has(words[i], "confidence") \/ ~Has(words[i], "word")
    \* the loop raises before st.markdown(html) is reached
    THEN [out |-> <<Header>>, exc |-> "KeyError"]
    ELSE [out |-> <<Header,
                    Html([i \in 1..Len(words) |->
                            ColoredSpan(DisplayText(words[i].word, words[i].confidence,
                                                    show_conf),
                                        words[i].confidence)])>>
                   \o Downloads(words),
          exc |-> "none"]

\* demo.py 67: the last step of the walk, ['words']
WordsDemo(a, show_conf) ==
    IF a.exc # "none" THEN [out |-> <<>>, exc |-> a.exc]
    ELSE IF ~Has(a.alt, "words") THEN [out |-> <<>>, exc |-> "KeyError"]
    ELSE ShowWordsDemo(a.alt.words, show_conf)

TryDisplayDemo(results, show_conf) == WordsDemo(Alternative(results, "KeyError"), show_conf)

\* exceptions the handler of demo.py's display_transcription catches (line 111)
CaughtByDemo == {"KeyError"}

\* `except KeyError as e` (demo.py 111-113) applied to the outcome t of the try
HandleDemo(t) ==
    IF t.exc = "none" THEN t
    ELSE IF t.exc \in CaughtByDemo
         THEN [out |-> t.out \o <<ParseError, RawJson>>, exc |-> "none"]
         ELSE t

\* demo.py display_transcription: what it shows, and the exception that
\* escapes it ("none" when it returns)
DisplayTranscriptionDemo(results, show_conf) == HandleDemo(TryDisplayDemo(results, show_conf))

(***************************************************************************)
(* demo2.py display_transcription.                                         *)
(***************************************************************************)
RECURSIVE SentencesOf(_)
\* the sentences the nested loops of demo2.py 75-76 visit, in order
SentencesOf(paragraphs) ==
    IF Len(paragraphs) = 0 THEN <<>>
    ELSE paragraphs[1].sentences \o SentencesOf(Tail(paragraphs))

RECURSIVE RenderTokens(_, _, _, _, _, _)
\* The loop over words_in_sentence (demo2.py 82-103) from token i on:
\* word_count counts the word objects used so far; a token takes the colour of
\* the next word object, or is shown bare when none is left.
RenderTokens(tokens, i, alt, word_count, show_conf, frags) ==
    IF i > Len(tokens) THEN [frags |-> frags, word_count |-> word_count, exc |-> "none"]
    ELSE IF ~Has(alt, "words")
         THEN [frags |-> frags, word_count |-> word_count, exc |-> "TypeError"]
    ELSE IF word_count < Len(alt.words)
         THEN LET word_obj == alt.words[word_count + 1]
              IN  IF ~Has(word_obj, "confidence")
                  THEN [frags |-> frags, word_count |-> word_count, exc |-> "AttributeError"]
                  ELSE RenderTokens(tokens, i + 1, alt, word_count + 1, show_conf,
                           Append(frags,
                                  ColoredSpan(DisplayText(tokens[i], word_obj.confidence,
                                                          show_conf),
                                              word_obj.confidence)))
    ELSE RenderTokens(tokens, i + 1, alt, word_count, show_conf,
                      Append(frags, PlainSpan(tokens[i])))

RECURSIVE RenderSentences(_, _, _, _, _, _)
\* demo2.py 105-106 for the sentence whose tokens ended as t, then the loop on
SentenceDone(t, sents, k, alt, show_conf, out) ==
    IF t.exc # "none" THEN [out |-> out, exc |-> t.exc]
    ELSE RenderSentences(sents, k + 1, alt, t.word_count, show_conf,
                         Append(out, Html(t.frags)))

\* The loops over paragraphs and sentences (demo2.py 75-106) from sentence k
\* on: every sentence that is processed to its end is shown at once.
RenderSentences(sents, k, alt, word_count, show_conf, out) ==
    IF k > Len(sents) THEN [out |-> out, exc |-> "none"]
    ELSE SentenceDone(RenderTokens(SplitOn(Space, sents[k].text), 1, alt, word_count,
                                   show_conf, <<>>),
                      sents, k, alt, show_conf, out)

\* the export part of demo2.py (109-124), after `shown`
ExportDemo2(alt, shown) ==
    IF ~Has(alt, "words") THEN [out |-> shown, exc |-> "TypeError"]
    ELSE IF \E i \in 1..Len(alt.words) : ~Has(alt.words[i], "word")
         THEN [out |-> shown, exc |-> "AttributeError"]
    ELSE IF \E i \in 1..Len(alt.words) : ~Has(alt.words[i], "confidence")
         \* the first button is on the page when detailed_text raises
         THEN [out |-> Append(shown, Download("transcript.txt", PlainText(alt.words))),
               exc |-> "AttributeError"]
    ELSE [out |-> shown \o Downloads(alt.words), exc |-> "none"]

\* demo2.py 109-124 after the loops ended as r
AfterSentences(r, alt) == IF r.exc # "none" THEN r ELSE ExportDemo2(alt, r.out)

\* demo2.py 75-124 with the walk to the alternative done
ParagraphsDemo2(a, show_conf) ==
    IF a.exc # "none" THEN [out |-> <<Header>>, exc |-> a.exc]
    ELSE IF ~Has(a.alt, "paragraphs") THEN [out |-> <<Header>>, exc |-> "AttributeError"]
    ELSE AfterSentences(RenderSentences(SentencesOf(a.alt.paragraphs.paragraphs), 1,
                                        a.alt, 0, show_conf, <<Header>>),
                        a.alt)

TryDisplayDemo2(response, show_conf) ==
    IF ~Has(response, "results") THEN [out |-> <<>>, exc |-> "AttributeError"]
    ELSE ParagraphsDemo2(Alternative(response, "AttributeError"), show_conf)

\* `except Exception as e` (demo2.py 126-128) applied to the outcome t of the try
HandleDemo2(t) ==
    IF t.exc = "none" THEN t
    ELSE [out |-> t.out \o <<ParseError, RawJson>>, exc |-> "none"]

\* demo2.py display_transcription: every exception of the body is caught
DisplayTranscriptionDemo2(response, show_conf) ==
    HandleDemo2(TryDisplayDemo2(response, show_conf))

DisplayTranscription(v, response, show_conf) ==
    IF v = "demo" THEN DisplayTranscriptionDemo(response, show_conf)
    ELSE DisplayTranscriptionDemo2(response, show_conf)

(***************************************************************************)
(* The responses the provider is let to send in Spec.                      *)
(***************************************************************************)
\* well-formed and malformed word objects
WordObjects ==
    { [word |-> <<"a">>, confidence |-> ConfHigh],
      [word |-> <<"b">>, confidence |-> ConfLow],
      [word |-> <<"a">>],
      [confidence |-> ConfLow] }

WordLists == SeqUpTo(WordObjects, MaxWords)

SentenceTexts == { <<>>, <<"a">>, <<"b">>, <<"a", Space, "b">>, <<"b", Space, "a">> }

\* the sentences either all in one paragraph or one paragraph each
ParagraphLists ==
    LET sents == SeqUpTo([text : SentenceTexts], MaxSentences)
    IN  {IF Len(ss) = 0 THEN <<>> ELSE <<[sentences |-> ss]>> : ss \in sents}
        \cup {[i \in 1..Len(ss) |-> [sentences |-> <<ss[i]>>]] : ss \in sents}

Wrap(alts) == [results |-> [channels |-> <<[alternatives |-> alts]>>]]

\* responses with some field missing or some list empty, above the word list
BrokenResponses ==
    { [err_msg |-> "Invalid credentials."],
      [results |-> [metadata |-> <<>>]],
      [results |-> [channels |-> <<>>]],
      [results |-> [channels |-> <<[detected_language |-> "en"]>>]],
      Wrap(<<>>),
      Wrap(<<[transcript |-> <<>>]>>) }

\* demo.py asks for no paragraphs, and reads none
ResponsesDemo == BrokenResponses \cup {Wrap(<<[words |-> ws]>>) : ws \in WordLists}

ResponsesDemo2 ==
    BrokenResponses
    \cup {Wrap(<<[words |-> ws]>>) : ws \in WordLists}
    \cup {Wrap(<<[paragraphs |-> [paragraphs |-> ps]]>>) : ps \in ParagraphLists}
    \cup {Wrap(<<[words |-> ws, paragraphs |-> [paragraphs |-> ps]]>>) :
             ws \in WordLists, ps \in ParagraphLists}

Responses(v) == IF v = "demo" THEN ResponsesDemo ELSE ResponsesDemo2

NoResponse == <<>>

(***************************************************************************)
(* State.                                                                  *)
(***************************************************************************)
VARIABLES
    \* Spec: one browser session on one of the two pages
    variant,          \* "demo" (src/demo.py) or "demo2" (src/demo2.py)
    api_key,          \* st.text_input: "" when nothing was entered
    uploaded_file,    \* st.file_uploader: "None" or the name of the upload
    show_confidence,  \* st.checkbox
    pc,               \* where the script run stands
    out,              \* the elements the current script run has shown
    response,         \* what transcribe_audio returned in this run
    tmp_created,      \* this run's NamedTemporaryFile was created
    tmp_exists,       \* this run's temporary file is on disk
    orphaned,         \* a temporary file of an earlier run is still on disk
    request_calls,    \* provider round trips of this run
    uncaught,         \* the exception that ended the script run, or "none"
    \* SpecColor: the colour of one word
    confidence,       \* k, for the double nearest k / ConfScale
    rgb,              \* <<r, g, b>> once computed
    fg,               \* text colour once computed
    \* SpecJoin: the plain-text export
    words,            \* the word texts, in provider order
    plain_text,       \* " ".join(words)
    pieces,           \* plain_text.split(" ")
    stage             \* progress of SpecColor and SpecJoin

flowVars  == <<variant, api_key, uploaded_file, show_confidence, pc, out, response,
               tmp_created, tmp_exists, orphaned, request_calls, uncaught>>
colorVars == <<confidence, rgb, fg>>
joinVars  == <<words, plain_text, pieces>>
vars      == <<flowVars, colorVars, joinVars, stage>>

FlowIdle ==
    /\ variant = "demo" /\ api_key = "" /\ uploaded_file = "None"
    /\ show_confidence = FALSE /\ pc = "idle" /\ out = <<StartPrompt>>
    /\ response = NoResponse /\ tmp_created = FALSE /\ tmp_exists = FALSE
    /\ orphaned = FALSE /\ request_calls = 0 /\ uncaught = "none"

ColorIdle == confidence = 0 /\ rgb = <<>> /\ fg = "none"

JoinIdle == words = <<>> /\ plain_text = <<>> /\ pieces = <<>>

(***************************************************************************)
(* Spec: the request flow (demo.py 116-147, demo2.py 131-162).             *)
(***************************************************************************)
ApiKeys == {"", "dg-key"}
Uploads == {"None", "speech.wav"}

\* a button block entered with a file alone
ButtonWithoutKey(key, file) == file # "None"

\* `if uploaded_file is not None and api_key:` (demo.py 116)
ButtonShown(key, file) == file # "None" /\ key # ""

\* the if / elif chain at the end of a script run in which the button, if
\* shown at all, was not pressed
Page(key, file) ==
    IF ButtonShown(key, file) THEN <<Button>>
    ELSE IF key = "" /\ file # "None" THEN <<KeyPrompt>>
    ELSE IF key # "" /\ file = "None" THEN <<FilePrompt>>
    ELSE <<StartPrompt>>

\* a script run starts: nothing of the last run is left but files on disk
NewRun ==
    /\ pc \in {"idle", "done"}
    /\ response' = NoResponse
    /\ tmp_created' = FALSE
    /\ tmp_exists' = FALSE
    /\ orphaned' = (orphaned \/ tmp_exists)
    /\ request_calls' = 0
    /\ uncaught' = "none"

Init ==
    /\ variant \in {"demo", "demo2"}
    /\ api_key = "" /\ uploaded_file = "None" /\ show_confidence = FALSE
    /\ pc = "idle" /\ out = Page("", "None")
    /\ response = NoResponse /\ tmp_created = FALSE /\ tmp_exists = FALSE
    /\ orphaned = FALSE /\ request_calls = 0 /\ uncaught = "none"
    /\ ColorIdle /\ JoinIdle /\ stage = "flow"

\* the user changes a widget: Streamlit runs the script again, button not pressed
Rerun(key, file, show) ==
    /\ NewRun
    /\ <<key, file, show>> # <<api_key, uploaded_file, show_confidence>>
    /\ api_key' = key /\ uploaded_file' = file /\ show_confidence' = show
    /\ pc' = "idle"
    /\ out' = Page(key, file)
    /\ UNCHANGED <<variant, colorVars, joinVars, stage>>

\* the user presses "Transcribe Audio", which is on the page only with a key
\* and a file
ClickTranscribe ==
    /\ NewRun
    /\ ButtonShown(api_key, uploaded_file)
    /\ pc' = "tmpfile"
    /\ out' = <<Button>>
    /\ UNCHANGED <<variant, api_key, uploaded_file, show_confidence,
                   colorVars, joinVars, stage>>

\* The `with tempfile.NamedTemporaryFile(delete=False, ...)` block (demo.py
\* 120-122): it stands before the try, so an exception in it ends the run,
\* and delete=False leaves a file that was created on disk.
CreateTempFile(outcome) ==
    /\ pc = "tmpfile"
    /\ \/ /\ outcome = "written"
          /\ tmp_created' = TRUE /\ tmp_exists' = TRUE
          /\ pc' = "call" /\ uncaught' = "none"
       \/ /\ outcome = "create_fails"
          /\ tmp_created' = FALSE /\ tmp_exists' = FALSE
          /\ pc' = "done" /\ uncaught' = "OSError"
       \/ /\ outcome = "write_fails"
          /\ tmp_created' = TRUE /\ tmp_exists' = TRUE
          /\ pc' = "done" /\ uncaught' = "OSError"
    /\ UNCHANGED <<variant, api_key, uploaded_file, show_confidence, out, response,
                   orphaned, request_calls, colorVars, joinVars, stage>>

\* how transcribe_audio can end
CallOutcomes(v) ==
    IF v = "demo" THEN {"fails_before_call", "transport_error", "not_json", "response"}
    ELSE {"fails_before_call", "transport_error", "status_error", "response"}

\* a transcribe_audio that tries once more after a transport failure
RoundTripsRetrying(outcome) ==
    IF outcome = "fails_before_call" THEN 0
    ELSE IF outcome = "transport_error" THEN 2
    ELSE 1

\* the provider round trips of one transcribe_audio (demo.py 48-57: one
\* conn.request; demo2.py 58: one transcribe_file)
RoundTrips(outcome) == IF outcome = "fails_before_call" THEN 0 ELSE 1

\* `finally: os.unlink(tmp_file_path)` (demo.py 138-140)
Unlink == tmp_exists' = FALSE

\* transcribe_audio (demo.py 33-63, demo2.py 37-64), called in the try of the
\* button block.  When it raises, `except Exception` reports and `finally`
\* unlinks; demo.py also returns the body of a non-success answer, which
\* json.loads parses like any other.
TranscribeAudio(outcome, r) ==
    /\ pc = "call"
    /\ outcome \in CallOutcomes(variant)
    /\ request_calls' = request_calls + RoundTrips(outcome)
    /\ IF outcome = "response"
       THEN /\ r \in Responses(variant)
            /\ response' = r
            /\ pc' = "display"
            /\ UNCHANGED <<out, tmp_exists>>
       ELSE /\ r = NoResponse
            /\ response' = NoResponse
            /\ out' = Append(out, RequestError)
            /\ Unlink
            /\ pc' = "done"
    /\ UNCHANGED <<variant, api_key, uploaded_file, show_confidence, tmp_created,
                   orphaned, uncaught, colorVars, joinVars, stage>>

\* demo.py 131-136 after display_transcription ended as d: the expander with
\* the raw response, or the report of `except Exception`
AfterDisplay(d) ==
    IF d.exc = "none" THEN d.out \o <<RawExpander, RawJson>>
    ELSE d.out \o <<RequestError>>

\* The rest of the try (demo.py 129-140): display_transcription, then the
\* expander with the raw response; an exception that escapes
\* display_transcription skips the expander and is reported by
\* `except Exception`; `finally` unlinks.
Display ==
    /\ pc = "display"
    /\ out' = out \o AfterDisplay(DisplayTranscription(variant, response, show_confidence))
    /\ Unlink
    /\ pc' = "done"
    /\ UNCHANGED <<variant, api_key, uploaded_file, show_confidence, response,
                   tmp_created, orphaned, request_calls, uncaught,
                   colorVars, joinVars, stage>>

Next ==
    \/ \E key \in ApiKeys, file \in Uploads, show \in BOOLEAN : Rerun(key, file, show)
    \/ ClickTranscribe
    \/ \E outcome \in {"written", "create_fails", "write_fails"} : CreateTempFile(outcome)
    \/ \E outcome \in CallOutcomes(variant) :
          \E r \in (IF outcome = "response" THEN Responses(variant) ELSE {NoResponse}) :
             TranscribeAudio(outcome, r)
    \/ Display

Spec == Init /\ [][Next]_vars

(***************************************************************************)
(* SpecColor: the colour of one word whose confidence is the double        *)
(* nearest confidence / ConfScale.                                         *)
(***************************************************************************)
InitColor ==
    /\ FlowIdle /\ JoinIdle
    /\ confidence \in 0..ConfScale
    /\ rgb = <<>> /\ fg = "none"
    /\ stage = "input"

\* demo.py 75-79 and the colour of line 87
ColorWord ==
    /\ stage = "input"
    /\ rgb' = <<Red(confidence, ConfScale), Green(confidence, ConfScale),
                Blue(confidence, ConfScale)>>
    /\ fg' = TextColor(confidence, ConfScale)
    /\ stage' = "colored"
    /\ UNCHANGED <<confidence, flowVars, joinVars>>

NextColor == ColorWord

SpecColor == InitColor /\ [][NextColor]_vars

(***************************************************************************)
(* SpecJoin: the plain-text export of a word list, and its split.          *)
(***************************************************************************)
InitJoin ==
    /\ FlowIdle /\ ColorIdle
    /\ words \in SeqUpTo(Texts(MaxTextLen), MaxJoinWords)
    /\ plain_text = <<>> /\ pieces = <<>>
    /\ stage = "words"

\* plain_text = " ".join([word["word"] for word in words]) (demo.py 94)
ExportPlain ==
    /\ stage = "words"
    /\ plain_text' = PlainText([i \in 1..Len(words) |-> [word |-> words[i]]])
    /\ stage' = "joined"
    /\ UNCHANGED <<words, pieces, flowVars, colorVars>>

\* plain_text.split(" ")
SplitPlain ==
    /\ stage = "joined"
    /\ pieces' = SplitOn(Space, plain_text)
    /\ stage' = "split"
    /\ UNCHANGED <<words, plain_text, flowVars, colorVars>>

NextJoin == ExportPlain \/ SplitPlain

SpecJoin == InitJoin /\ [][NextJoin]_vars

(***************************************************************************)
(* Properties.                                                             *)
(***************************************************************************)
\* the request of the current script run has ended
RequestEnded == pc = "done"

Shown(element) == \E i \in 1..Len(out) : out[i] = element

ShownKind(kind) == \E i \in 1..Len(out) : out[i].kind = kind

\* the response carries a word list at the end of the expected path
HasWordList(r) ==
    /\ Alternative(r, "missing").exc = "none"
    /\ Has(Alternative(r, "missing").alt, "words")

WordListOf(r) == Alternative(r, "missing").alt.words

\* C1 (as claimed): whenever the temporary file of a request has been created,
\* it no longer exists when the request ends, whatever the exit path,
\* a failing write of the uploaded bytes included.
C1_TempFileCleaned == RequestEnded /\ tmp_created => ~tmp_exists

\* the malformed shapes C2 lists: a field of the path missing, an empty
\* channels or alternatives list, no word list, a word object without
\* 'confidence' or 'word', and in demo2 no paragraphs
C2_Malformed(v, r) ==
    \/ ~HasWordList(r)
    \/ \E i \in 1..Len(WordListOf(r)) :
          ~Has(WordListOf(r)[i], "confidence") \/ ~Has(WordListOf(r)[i], "word")
    \/ v = "demo2" /\ ~Has(Alternative(r, "missing").alt, "paragraphs")

\* C2 (as claimed): a request whose provider response is malformed ends with
\* the 'Error parsing transcription result' message and the raw payload on
\* the page, and with no uncaught exception.
C2_MalformedReported ==
    RequestEnded /\ response # NoResponse /\ C2_Malformed(variant, response)
        => Shown(ParseError) /\ Shown(RawJson) /\ uncaught = "none"

\* p / q rounded to the nearest integer, ties to even
RoundDiv(p, q) ==
    IF 2 * (p % q) < q THEN p \div q
    ELSE IF 2 * (p % q) > q THEN p \div q + 1
    ELSE IF (p \div q) % 2 = 0 THEN p \div q ELSE p \div q + 1

\* C3 (as claimed): the channels are the rounded products,
\* red = round(255 * (1 - c)), green = round(255 * c), blue = 0.
C3_RoundedChannels ==
    stage = "colored" =>
        rgb = <<RoundDiv(255 * (ConfScale - confidence), ConfScale),
                RoundDiv(255 * confidence, ConfScale), 0>>

\* the channel the code computes for the exact product p / q: its floor, or
\* one less where the product is a whole number that double rounding missed
C3_Truncated(channel, p, q) ==
    \/ channel = p \div q
    \/ p % q = 0 /\ channel = p \div q - 1

\* C3 (amended): the channels are the truncated products,
\* red = int(255 * (1 - c)), green = int(255 * c), blue = 0: the floor of the
\* exact product, but for a whole-number product that the double arithmetic
\* misses from below; c = 0.92 gives rgb(20, 234, 0), c = 0.31 gives
\* rgb(175, 79, 0) and c = 0.8 gives rgb(50, 204, 0).
C3_TruncatedChannels ==
    /\ stage = "colored" =>
          /\ Len(rgb) = 3
          /\ C3_Truncated(rgb[1], 255 * (ConfScale - confidence), ConfScale)
          /\ C3_Truncated(rgb[2], 255 * confidence, ConfScale)
          /\ rgb[3] = 0
    /\ stage = "colored" /\ 100 * confidence = 92 * ConfScale => rgb = <<20, 234, 0>>
    /\ stage = "colored" /\ 100 * confidence = 31 * ConfScale => rgb = <<175, 79, 0>>
    /\ stage = "colored" /\ 10 * confidence = 8 * ConfScale => rgb = <<50, 204, 0>>

\* a word of confidence 0.92 has been coloured, and truncation shows
C3_Witness ==
    stage = "colored" /\ 100 * confidence = 92 * ConfScale /\ rgb = <<20, 234, 0>>

\* a request's provider call failed: transcribe_audio raised after the round
\* trip, or its answer carries no word list
C4_CallFailed ==
    /\ RequestEnded /\ request_calls = 1
    /\ response = NoResponse \/ ~HasWordList(response)

\* C4 (as claimed): when the provider call of a request fails, an error is
\* shown and nothing is rendered: no header, no word fragment, no download
\* button.
C4_NoRenderingOnFailure ==
    C4_CallFailed =>
        /\ ShownKind("error")
        /\ ~Shown(Header) /\ ~ShownKind("html") /\ ~ShownKind("download_button")

\* C5: with no credential the action is blocked: no temporary file, no
\* provider round trip, and with a file selected the prompt for the API key.
C5_NoKeyNoCall ==
    api_key = "" =>
        /\ pc = "idle"
        /\ ~tmp_created /\ ~tmp_exists
        /\ request_calls = 0
        /\ response = NoResponse
        /\ uploaded_file # "None" => out = <<KeyPrompt>>

\* no credential, a file selected, the checkbox ticked, after an earlier request
C5_Witness ==
    /\ api_key = "" /\ uploaded_file # "None" /\ show_confidence
    /\ out = <<KeyPrompt>> /\ orphaned

\* C6: a request makes at most one provider round trip, exactly one when it
\* gets past the call; the count rises only in the call step of a request
\* that has made none, and an ended request is followed only by a new run
\* started by the user, which starts at zero.
C6_OneRoundTrip ==
    [][ /\ request_calls' \in {0, 1}
        /\ request_calls' > request_calls => pc = "call" /\ request_calls = 0
        /\ pc = "call" /\ pc' = "display" => request_calls' = 1
        /\ pc = "display" => request_calls' = request_calls /\ pc' = "done"
        /\ pc = "done" => pc' \in {"idle", "tmpfile"} /\ request_calls' = 0
      ]_vars

\* a request that failed after its one round trip has ended
C6_Witness ==
    RequestEnded /\ request_calls = 1 /\ response = NoResponse /\ Shown(RequestError)

\* C7 (as claimed): a response with an empty word list is rendered without
\* an error and without a word fragment, and both downloads are offered
\* with empty content, in both variants.
C7_EmptyWordList ==
    RequestEnded /\ HasWordList(response) /\ WordListOf(response) = <<>>
        => /\ ~ShownKind("error")
           /\ \A i \in 1..Len(out) : out[i].frags = <<>>
           /\ Shown(Download("transcript.txt", <<>>))
           /\ Shown(Download("detailed_transcript.txt", <<>>))

\* where word i starts in the join of ws: after the words before it and
\* one separator each
C8_Start(ws, i) ==
    LET RECURSIVE Before(_)
        Before(j) == IF j = 0 THEN 0 ELSE Before(j - 1) + Len(ws[j]) + 1
    IN  Before(i - 1)

\* C8: for a non-empty word sequence, plain_text is the word texts in provider
\* order with one space between neighbours and nothing else; and when no
\* word text holds a space, splitting plain_text at spaces gives the word
\* texts back.
C8_JoinSplit ==
    /\ stage \in {"joined", "split"} /\ Len(words) > 0 =>
          /\ Len(plain_text) = C8_Start(words, Len(words)) + Len(words[Len(words)])
          /\ \A i \in 1..Len(words) :
                /\ SubSeq(plain_text, C8_Start(words, i) + 1,
                          C8_Start(words, i) + Len(words[i])) = words[i]
                /\ i > 1 => plain_text[C8_Start(words, i)] = Space
    /\ stage = "split" /\ Len(words) > 0
         /\ (\A i \in 1..Len(words) : \A k \in 1..Len(words[i]) : words[i][k] # Space)
          => pieces = words

\* two different words without spaces were joined and split
C8_Witness ==
    /\ stage = "split" /\ Len(words) = 2 /\ words[1] # words[2]
    /\ Len(words[1]) > 0 /\ Len(words[2]) > 0
    /\ \A i \in 1..2 : \A k \in 1..Len(words[i]) : words[i][k] # Space
    /\ pieces = words

\* all fragments of the page, in the order shown
C9_Fragments(elements) ==
    LET RECURSIVE F(_)
        F(i) == IF i = 0 THEN <<>> ELSE F(i - 1) \o elements[i].frags
    IN  F(Len(elements))

\* C9 (as claimed): in demo2 the fragments shown over all sentences are the
\* words of the word list, each once and in order, each with the colour of
\* its own confidence, whatever the paragraphs and sentence texts are.
C9_GroupingIsView ==
    /\ RequestEnded /\ variant = "demo2"
    /\ HasWordList(response) /\ ~C2_Malformed(variant, response)
    => LET ws == WordListOf(response)
           fs == C9_Fragments(out)
       IN  /\ Len(fs) = Len(ws)
           /\ \A i \in 1..Len(fs) :
                 /\ fs[i].colored
                 /\ i <= Len(ws) =>
                       /\ fs[i].text = DisplayText(ws[i].word, ws[i].confidence,
                                                   show_confidence)
                       /\ fs[i].rgb = StyleOf(ws[i].confidence).rgb

\* C10: the truncated channels lie in 0..255 and add up to 254 or 255, and
\* the text is white exactly when the confidence is below one half.
C10_ChannelsInRange ==
    stage = "colored" =>
        /\ rgb[1] \in 0..255 /\ rgb[2] \in 0..255
        /\ rgb[1] + rgb[2] \in {254, 255}
        /\ fg \in {"white", "black"}
        /\ fg = "white" <=> 2 * confidence < ConfScale

\* a confidence of exactly one half: black text, channels 127 and 127
C10_Witness ==
    stage = "colored" /\ 2 * confidence = ConfScale /\ fg = "black" /\ rgb = <<127, 127, 0>>

=============================================================================
